---- MODULE Spec2Model ----
(***************************************************************************)
(* The execution lifecycle tracker of the A2A product-manager service:     *)
(* AgentExecutor (src/src/a2a/agent/executor.py) and the message processor *)
(* it awaits (ProductManagementAgent.process_message).                     *)
(*                                                                         *)
(* Scheduling is asyncio's: one event loop, tasks interleave only at an    *)
(* await that really suspends.  The one such point in execute is the call  *)
(* of process_message (line 75).  `running` names the task that is between *)
(* two suspension points; every other handler waits until it is 0.         *)
(*                                                                         *)
(* The A2A routes (a2a_server.py) and the chat routes (chat.py) are the    *)
(* two presentations of that controller; Spec is the controller with the   *)
(* A2A route that can refuse a request, ServiceSpec the service in which   *)
(* executions enter through both presentations.  FacadeSpec is the A2A    *)
(* facade with request bodies it cannot parse, FairSpec the controller     *)
(* under a fair event loop and a processor that ends every call.           *)
(*                                                                         *)
(* The command-line scripts have a variable and a specification each:      *)
(* PipelineSpec (pipelines/create_search_index.py), UploadSpec             *)
(* (pipelines/create_search_index_direct.py), CleanupSpec                  *)
(* (delete_agent53.py) and RedeploymentSpec (verify_redeployment.py).      *)
(*                                                                         *)
(* Python's None is the empty tuple << >>, a present value x is <<x>>.     *)
(***************************************************************************)
EXTENDS Integers, Sequences, FiniteSets, TLC

\* ---------------------------------------------------------------- bounds
\* execute calls made in one behaviour
MaxExec == 2
\* readings the wall clock can take after the first
MaxClock == 1

\* ------------------------------------------------------------ the inputs
Tasks == 1..MaxExec

\* str(uuid.uuid4()): the id space, one value more than the calls made, so
\* that cancel and get_execution_status can also be given an unknown id
IdOf(n) == "uuid-" \o ToString(n)
Ids == {IdOf(n) : n \in 1..(MaxExec + 1)}
UnknownId == IdOf(MaxExec + 1)

\* the request dicts: no "message" key, an empty message, a message
Messages == {"", "hello"}
Requests == {[k \in {} |-> ""]} \cup {[message |-> m] : m \in Messages}

\* what the hosted agent and the tracing layer can do during one
\* process_message call
AgentEvents ==
    { [ev |-> "messages", msgs |-> <<"draft", "world">>],
      [ev |-> "invoke_error", text |-> "boom"],
      [ev |-> "tracer_error", text |-> "span failed"] }

\* ------------------------------------------------------- python helpers
None == << >>
Some(x) == <<x>>

\* d.get(k, default)
DictGet(d, k, default) == IF k \in DOMAIN d THEN d[k] ELSE default

\* d.update(fields)
DictUpdate(d, fields) ==
    [f \in DOMAIN d \cup DOMAIN fields |->
        IF f \in DOMAIN fields THEN fields[f] ELSE d[f]]

\* d[k] = v on the store: an existing key keeps its place and is overwritten
StoreSet(d, k, v) == [x \in DOMAIN d \cup {k} |-> IF x = k THEN v ELSE d[x]]
KeysSet(ks, d, k) == IF k \in DOMAIN d THEN ks ELSE Append(ks, k)

\* a test that takes every str for true
TruthyAlways(s) == TRUE

\* truth value of a str
Truthy(s) == s # ""

\* datetime.isoformat(): a text, not the datetime it came from
IsoFormat(t) == "T" \o ToString(t)
IsoOrNone(o) == IF o # None THEN Some(IsoFormat(o[1])) ELSE None

\* sub in s, for texts
Contains(s, sub) ==
    \E i \in 1..(Len(s) - Len(sub) + 1) : SubSeq(s, i, i + Len(sub) - 1) = sub
StartsWith(s, pre) == Len(s) >= Len(pre) /\ SubSeq(s, 1, Len(pre)) = pre

\* ------------------------------------------------------ ExecutionStatus
ExecutionStatus ==
    [PENDING |-> "pending", RUNNING |-> "running", COMPLETED |-> "completed",
     CANCELLED |-> "cancelled", FAILED |-> "failed"]
StatusValue(s) == ExecutionStatus[s]
Terminal == {"COMPLETED", "FAILED", "CANCELLED"}

\* ---------------------------------------------------------- exceptions
\* the classes below Exception that the modelled code raises.  What is not
\* below Exception (asyncio.CancelledError, KeyboardInterrupt) comes from the
\* event loop, not from the message processor, and is not modelled.
ExceptionClasses == {"ValueError", "RuntimeError"}
Raise(cls, text) == [cls |-> cls, text |-> text]

\* ------------------------------------------------------ process_message
\* the outcome of ProductManagementAgent.process_message under one event
\* of the agent: the text it returns, or the exception that leaves it.  The
\* span of line 193 is opened outside the try of line 194, so an error of the
\* tracer leaves the method; an error of self.agent.invoke is caught at line
\* 259 and comes back as a text.  A message stands for its content.
ProcessMessage(message, ev) ==
    IF ev.ev = "tracer_error"
    THEN [kind |-> "raise", exc |-> Raise("RuntimeError", ev.text)]
    ELSE IF ev.ev = "invoke_error"
    THEN [kind |-> "return",
          text |-> "I apologize, but I encountered an error while processing your request: "
                   \o ev.text \o ". Please try again."]
    ELSE IF Len(ev.msgs) > 0
    THEN [kind |-> "return", text |-> ev.msgs[Len(ev.msgs)]]
    ELSE [kind |-> "return", text |-> "No response generated from the agent system."]

\* ---------------------------------------------------------------- state
\* the longest document list given to upload_to_search_index
MaxDocs == 101

VARIABLES
    executions,   \* AgentExecutor.executions: id -> record
    keys,         \* the insertion order of that dict
    tasks,        \* one entry per execute call: where it stands, its locals
    running,      \* the task between two suspension points, 0 if none
    clock,        \* the latest reading of datetime.utcnow()
    cancelled,    \* history: the ids a cancel call has cancelled
    last,         \* the call of cancel, or the refusal of POST /execute, that
                  \* the step just taken was, with its argument and return
                  \* value; NoCall after any other step
    agent_executor, \* the places that hold a reference to an AgentExecutor
                  \* object: the module global of executor.py, the module
                  \* global of chat.py and the field of the A2AServer; with
                  \* the number of objects constructed
    pipeline,     \* one run of pipelines/create_search_index.py: where main
                  \* stands, the REST requests sent, what was printed
    upload,       \* one call of upload_to_search_index: its documents, the
                  \* loop index, the batches posted, total_uploaded
    cleanup,      \* one call of delete_agent53: the agents the project
                  \* holds, where the function stands, what it returned
    redeployment  \* one call of verify_successful_redeployment: the agents
                  \* listed and what it returned

vars == <<executions, keys, tasks, running, clock, cancelled, last,
          agent_executor, pipeline, upload, cleanup, redeployment>>

\* the state of the service, and the state of the command-line scripts
service == <<executions, keys, tasks, running, clock, cancelled, last,
             agent_executor>>
scripts == <<pipeline, upload, cleanup, redeployment>>

NoCall == [op |-> "none", arg |-> None, ret |-> None]

IdleTask ==
    [pc |-> "idle", request |-> None, execution_id |-> None,
     outcome |-> None, exc |-> None, calls |-> 0, ret |-> None]

\* --------------------------------------------------- the one controller
\* the modules as their import leaves them: no AgentExecutor yet
Imported == [global |-> None, chat |-> None, a2a_server |-> None, objects |-> 0]

\* a getter that constructs an AgentExecutor on every call
GetAgentExecutorFresh(g) ==
    [g EXCEPT !.global = Some(g.objects + 1), !.objects = @ + 1]

\* executor.py lines 205-210: the references after the call; what the call
\* returns is the global then
GetAgentExecutor(g) ==
    IF g.global = None
    THEN [g EXCEPT !.global = Some(g.objects + 1), !.objects = @ + 1]
    ELSE g

\* a2a_server.py line 33, in A2AServer.__init__, which main.py runs once at
\* startup before a request is served
A2AServerInit(g) ==
    LET h == GetAgentExecutor(g) IN [h EXCEPT !.a2a_server = h.global]

\* chat.py lines 22-27
GetOrCreate(g) ==
    IF g.chat = None
    THEN LET h == GetAgentExecutor(g) IN [h EXCEPT !.chat = h.global]
    ELSE g

\* a script that has not been started
NotRun == [pc |-> "start"]

\* create_search_index.py: the order of the steps in main, lines 213-239,
\* and main before its first step, nothing sent and nothing printed
Steps == <<"create_or_update_datasource", "create_or_update_index",
           "create_or_update_indexer", "run_indexer", "check_indexer_status">>
MainEntered == [pc |-> Steps[1], requests |-> << >>, completed |-> FALSE]

\* the state after startup: the A2AServer is built, and `executions` is the
\* store of the AgentExecutor it holds; no script has been run
Init ==
    /\ pipeline = MainEntered
    /\ upload = NotRun
    /\ cleanup = NotRun
    /\ redeployment = NotRun
    /\ agent_executor = A2AServerInit(Imported)
    /\ executions = [k \in {} |-> None]
    /\ keys = << >>
    /\ tasks = [t \in Tasks |-> IdleTask]
    /\ running = 0
    /\ clock = 0
    /\ cancelled = {}
    /\ last = NoCall

\* ------------------------------------------------------------ the clock
\* datetime.utcnow(): the latest reading again, or a later one.  Only the
\* order of the readings is observable, so the first one (taken for the
\* first record) is 0 and a later one is the next number.
Now == {now \in {clock, clock + 1} :
            now <= MaxClock /\ (now = clock \/ DOMAIN executions # {})}

\* ------------------------------------------------------------- execute
\* the local execution_id of call t
IdOfTask(t) == tasks[t].execution_id[1]

\* an id generator that can give an id twice
Uuid4Colliding(execs) == {IdOf(1)}

\* uuid.uuid4(): a random id.  A collision with a stored id has probability
\* about 2^-122 and is not a behaviour of the model; the ids are
\* interchangeable, so the k-th draw is taken to be IdOf(k).
Uuid4(execs) == {IdOf(Cardinality(DOMAIN execs) + 1)}

NewRecord(execution_id, request, now) ==
    [id |-> execution_id, status |-> "PENDING", request |-> request,
     result |-> None, error |-> None,
     start_time |-> Some(now), end_time |-> None]

\* lines 49-60 followed by a suspension point before line 63
ExecCreateYields(t, request) ==
    /\ running = 0
    /\ tasks[t].pc = "idle"
    /\ \A u \in Tasks : u < t => tasks[u].pc # "idle"
    /\ \E execution_id \in Uuid4(executions), now \in Now :
        /\ executions' = StoreSet(executions, execution_id,
                                  NewRecord(execution_id, request, now))
        /\ keys' = KeysSet(keys, executions, execution_id)
        /\ clock' = now
        /\ tasks' = [tasks EXCEPT ![t] =
                        [@ EXCEPT !.pc = "created", !.request = Some(request),
                                  !.execution_id = Some(execution_id)]]
    /\ running' = 0
    /\ last' = NoCall
    /\ UNCHANGED <<cancelled, agent_executor, scripts>>

\* lines 49-60: the id and the record
ExecCreate(t, request) ==
    /\ running = 0
    /\ tasks[t].pc = "idle"
    /\ \A u \in Tasks : u < t => tasks[u].pc # "idle"
    /\ \E execution_id \in Uuid4(executions), now \in Now :
        /\ executions' = StoreSet(executions, execution_id,
                                  NewRecord(execution_id, request, now))
        /\ keys' = KeysSet(keys, executions, execution_id)
        /\ clock' = now
        /\ tasks' = [tasks EXCEPT ![t] =
                        [@ EXCEPT !.pc = "created", !.request = Some(request),
                                  !.execution_id = Some(execution_id)]]
    /\ running' = t
    /\ last' = NoCall
    /\ UNCHANGED <<cancelled, agent_executor, scripts>>

\* a handler that catches ValueError alone
CatchesOnlyValueError(e) == e.cls = "ValueError"

\* line 96: except Exception
CatchesException(e) == e.cls \in ExceptionClasses

\* an error text that leaves out what the exception said
ErrorMsgGeneric(e) == "Execution failed"

\* an error text without the prefix of line 97
ErrorMsgBare(e) == e.text

\* line 97
ErrorMsg(e) == "Execution failed: " \o e.text

\* the update of lines 101-105 without its "status" entry
FailedUpdateKeepsStatus(rec, e, now) ==
    DictUpdate(rec, [error |-> Some(ErrorMsg(e)), end_time |-> Some(now)])

\* lines 101-105
FailedUpdate(rec, e, now) ==
    DictUpdate(rec, [status |-> "FAILED", error |-> Some(ErrorMsg(e)),
                     end_time |-> Some(now)])

\* lines 107-114
ErrorResult(execution_id, e, now) ==
    [execution_id |-> execution_id,
     response |-> "I apologize, but I encountered an error processing your request: "
                  \o ErrorMsg(e),
     status |-> "error", timestamp |-> IsoFormat(now),
     agent_type |-> "product_manager", error |-> ErrorMsg(e)]

\* the result of lines 78-84 with the message in the place of the response
SuccessResultEcho(execution_id, response, now) ==
    [execution_id |-> execution_id, response |-> "hello", status |-> "success",
     timestamp |-> IsoFormat(now), agent_type |-> "product_manager"]

\* lines 78-84
SuccessResult(execution_id, response, now) ==
    [execution_id |-> execution_id, response |-> response, status |-> "success",
     timestamp |-> IsoFormat(now), agent_type |-> "product_manager"]

\* the update of lines 87-91 without its "status" entry
CompletedUpdateKeepsStatus(rec, result, now) ==
    DictUpdate(rec, [result |-> Some(result), end_time |-> Some(now)])

\* the update of lines 87-91 without its "result" entry
CompletedUpdateNoResult(rec, result, now) ==
    DictUpdate(rec, [status |-> "COMPLETED", end_time |-> Some(now)])

\* lines 87-91
CompletedUpdate(rec, result, now) ==
    DictUpdate(rec, [status |-> "COMPLETED", result |-> Some(result),
                     end_time |-> Some(now)])

\* a start that leaves the record Pending
SetRunningSkipped(rec) == rec

\* line 66
SetRunning(rec) == [rec EXCEPT !.status = "RUNNING"]

\* line 69
MessageOf(request) == DictGet(request, "message", "")

\* lines 62-75: Running, the message, and either the ValueError of line 72
\* (control goes to the handler with no suspension) or the call of
\* process_message, where execute is suspended
ExecBegin(t) ==
    /\ running = t
    /\ tasks[t].pc = "created"
    /\ executions' = [executions EXCEPT ![IdOfTask(t)] = SetRunning(@)]
    /\ IF ~Truthy(MessageOf(tasks[t].request[1]))
       THEN /\ tasks' = [tasks EXCEPT ![t] =
                           [@ EXCEPT !.pc = "except",
                                     !.exc = Some(Raise("ValueError", "Message is required"))]]
            /\ running' = t
       ELSE /\ tasks' = [tasks EXCEPT ![t] =
                           [@ EXCEPT !.pc = "awaiting", !.calls = @ + 1]]
            /\ running' = 0
    /\ last' = NoCall
    /\ UNCHANGED <<keys, clock, cancelled, agent_executor, scripts>>

\* an execute that looks at its record when it resumes and gives up when a
\* cancel has been there
ExecCompleteUnlessCancelled(t, ev) ==
    /\ running = 0
    /\ tasks[t].pc = "awaiting"
    /\ \E now \in Now :
        LET out == ProcessMessage(MessageOf(tasks[t].request[1]), ev)
            stopped == executions[IdOfTask(t)].status = "CANCELLED"
            result == IF stopped
                      THEN [execution_id |-> IdOfTask(t), response |-> "",
                            status |-> "cancelled", timestamp |-> IsoFormat(now),
                            agent_type |-> "product_manager"]
                      ELSE SuccessResult(IdOfTask(t), out.text, now)
        IN /\ out.kind = "return"
           /\ executions' = IF stopped THEN executions
                            ELSE [executions EXCEPT ![IdOfTask(t)] =
                                     CompletedUpdate(@, result, now)]
           /\ tasks' = [tasks EXCEPT ![t] =
                          [@ EXCEPT !.pc = "returned", !.outcome = Some(out),
                                    !.ret = Some(result)]]
           /\ clock' = now
    /\ last' = NoCall
    /\ UNCHANGED <<keys, running, cancelled, agent_executor, scripts>>

\* lines 75-94: process_message returns and execute runs to its return
ExecComplete(t, ev) ==
    /\ running = 0
    /\ tasks[t].pc = "awaiting"
    /\ \E now \in Now :
        LET out == ProcessMessage(MessageOf(tasks[t].request[1]), ev)
            result == SuccessResult(IdOfTask(t), out.text, now)
        IN /\ out.kind = "return"
           /\ executions' = [executions EXCEPT ![IdOfTask(t)] =
                                CompletedUpdate(@, result, now)]
           /\ tasks' = [tasks EXCEPT ![t] =
                          [@ EXCEPT !.pc = "returned", !.outcome = Some(out),
                                    !.ret = Some(result)]]
           /\ clock' = now
    /\ last' = NoCall
    /\ UNCHANGED <<keys, running, cancelled, agent_executor, scripts>>

\* line 75: process_message raises into execute, which resumes in its handler
ExecFail(t, ev) ==
    /\ running = 0
    /\ tasks[t].pc = "awaiting"
    /\ LET out == ProcessMessage(MessageOf(tasks[t].request[1]), ev)
       IN /\ out.kind = "raise"
          /\ tasks' = [tasks EXCEPT ![t] =
                         [@ EXCEPT !.pc = "except", !.outcome = Some(out),
                                   !.exc = Some(out.exc)]]
    /\ running' = t
    /\ last' = NoCall
    /\ UNCHANGED <<executions, keys, clock, cancelled, agent_executor, scripts>>

\* lines 96-114: the handler; an exception it does not catch leaves execute
ExecExcept(t) ==
    /\ running = t
    /\ tasks[t].pc = "except"
    /\ LET e == tasks[t].exc[1] IN
       IF CatchesException(e)
       THEN \E now \in Now :
            LET result == ErrorResult(IdOfTask(t), e, now) IN
            /\ executions' = [executions EXCEPT ![IdOfTask(t)] =
                                 FailedUpdate(@, e, now)]
            /\ tasks' = [tasks EXCEPT ![t] =
                           [@ EXCEPT !.pc = "returned", !.ret = Some(result)]]
            /\ clock' = now
       ELSE /\ tasks' = [tasks EXCEPT ![t] = [@ EXCEPT !.pc = "raised"]]
            /\ UNCHANGED <<executions, clock>>
    /\ running' = 0
    /\ last' = NoCall
    /\ UNCHANGED <<keys, cancelled, agent_executor, scripts>>

\* -------------------------------------------------------------- cancel
\* the ids a caller passes to cancel and get_execution_status: those of the
\* records, and one that no record has
Callable == DOMAIN executions \cup {UnknownId}

NotFound(execution_id) ==
    [execution_id |-> execution_id, status |-> "error",
     message |-> "Execution not found"]

\* the test of line 135 without FAILED
CancelRefusedNotFailed(rec) == rec.status \in {"COMPLETED", "CANCELLED"}

\* line 135
CancelRefused(rec) == rec.status \in {"COMPLETED", "FAILED", "CANCELLED"}

\* the update of lines 143-146 without its "end_time" entry
CancelledUpdateNoEndTime(rec, now) ==
    DictUpdate(rec, [status |-> "CANCELLED"])

\* an update that also stamps the start time again
CancelledUpdateRestamped(rec, now) ==
    DictUpdate(rec, [status |-> "CANCELLED", start_time |-> Some(now),
                     end_time |-> Some(now)])

\* lines 143-146
CancelledUpdate(rec, now) ==
    DictUpdate(rec, [status |-> "CANCELLED", end_time |-> Some(now)])

\* lines 126-154: what cancel returns
CancelResult(execs, execution_id) ==
    IF execution_id \notin DOMAIN execs
    THEN NotFound(execution_id)
    ELSE IF CancelRefused(execs[execution_id])
    THEN [execution_id |-> execution_id, status |-> "error",
          message |-> "Execution already "
                      \o StatusValue(execs[execution_id].status)]
    ELSE [execution_id |-> execution_id, status |-> "cancelled",
          message |-> "Execution cancelled successfully"]

\* a cancel that marks every record that is not terminal
CancelStoreEveryLive(execs, execution_id, now) ==
    IF execution_id \notin DOMAIN execs THEN execs
    ELSE IF CancelRefused(execs[execution_id]) THEN execs
    ELSE [id \in DOMAIN execs |->
            IF CancelRefused(execs[id]) THEN execs[id]
            ELSE CancelledUpdate(execs[id], now)]

\* lines 126-146: what cancel leaves in the store
CancelStore(execs, execution_id, now) ==
    IF execution_id \notin DOMAIN execs THEN execs
    ELSE IF CancelRefused(execs[execution_id]) THEN execs
    ELSE [execs EXCEPT ![execution_id] = CancelledUpdate(@, now)]

Cancel(execution_id) ==
    /\ running = 0
    /\ execution_id \in Callable
    /\ IF CancelResult(executions, execution_id).status = "cancelled"
       THEN \E now \in Now :
               /\ executions' = CancelStore(executions, execution_id, now)
               /\ clock' = now
       ELSE /\ executions' = CancelStore(executions, execution_id, clock)
            /\ clock' = clock
    /\ last' = [op |-> "cancel", arg |-> Some(execution_id),
                ret |-> Some(CancelResult(executions, execution_id))]
    /\ cancelled' = IF CancelResult(executions, execution_id).status = "cancelled"
                    THEN cancelled \cup {execution_id} ELSE cancelled
    /\ UNCHANGED <<keys, tasks, running, agent_executor, scripts>>

\* ------------------------------------------------ get_execution_status
StatusSnapshot(execs, execution_id) ==
    IF execution_id \notin DOMAIN execs
    THEN NotFound(execution_id)
    ELSE LET execution == execs[execution_id] IN
         [execution_id |-> execution_id,
          status |-> StatusValue(execution.status),
          start_time |-> IsoOrNone(execution.start_time),
          end_time |-> IsoOrNone(execution.end_time),
          result |-> DictGet(execution, "result", None),
          error |-> DictGet(execution, "error", None)]

\* a lookup that stores a record for the id it does not find, as
\* dict.setdefault would
GetExecutionStatusSetdefault(execution_id) ==
    /\ running = 0
    /\ execution_id \in Callable
    /\ executions' = IF execution_id \in DOMAIN executions THEN executions
                     ELSE StoreSet(executions, execution_id,
                                   NewRecord(execution_id, [k \in {} |-> ""], clock))
    /\ keys' = KeysSet(keys, executions, execution_id)
    /\ last' = NoCall
    /\ UNCHANGED <<tasks, running, clock, cancelled, agent_executor, scripts>>

\* lines 156-182: the call returns StatusSnapshot(executions, execution_id)
\* and writes nothing
GetExecutionStatus(execution_id) ==
    /\ running = 0
    /\ execution_id \in Callable
    /\ last' = NoCall
    /\ UNCHANGED <<executions, keys, tasks, running, clock, cancelled,
                   agent_executor, scripts>>

\* ----------------------------------------------------- list_executions
Summary(execs, execution_id) ==
    [execution_id |-> execution_id,
     status |-> StatusValue(execs[execution_id].status),
     start_time |-> IsoOrNone(execs[execution_id].start_time),
     end_time |-> IsoOrNone(execs[execution_id].end_time)]

Summaries(execs, ks) == [i \in 1..Len(ks) |-> Summary(execs, ks[i])]

\* lines 184-199: the call returns Summaries(executions, keys) and writes
\* nothing
ListExecutions ==
    /\ running = 0
    /\ last' = NoCall
    /\ UNCHANGED <<executions, keys, tasks, running, clock, cancelled,
                   agent_executor, scripts>>

\* ------------------------------------------------------- the A2A routes
\* (a2a_server.py) and the chat routes (chat.py).  A route adds no state to
\* the controller's: it is the controller call, and a response made of what
\* the call returned.
\* the parsed bodies of POST /execute: JSON objects
Bodies == Requests

\* starlette's JSONResponse: the status code and the content
JSONResponse(content, status_code) ==
    [status_code |-> status_code, content |-> content]

\* fastapi's HTTPException, as the response the framework makes of it
HTTPException(status_code, detail) ==
    [status_code |-> status_code, content |-> [detail |-> detail]]

\* a validation that also refuses an empty message
MessageMissingOrEmpty(body) == ~Truthy(MessageOf(body))

\* a2a_server.py line 145
MessageMissing(body) == "message" \notin DOMAIN body

\* a2a_server.py lines 139-152: POST /execute up to the point where execute
\* is suspended or the 400 is returned.  Call t is one execute call, so a
\* refused request does not use it up.
ExecuteEndpoint(t, body) ==
    /\ running = 0
    /\ tasks[t].pc = "idle"
    /\ \A u \in Tasks : u < t => tasks[u].pc # "idle"
    /\ IF MessageMissing(body)
       THEN /\ last' = [op |-> "POST /execute", arg |-> Some(body),
                        ret |-> Some(JSONResponse(
                                   [error |-> "Message is required"], 400))]
            /\ UNCHANGED <<executions, keys, tasks, running, clock,
                           cancelled, agent_executor, scripts>>
       ELSE ExecCreate(t, body)

\* request bodies that are not JSON: the empty body and a cut-off object
UnparsedBodies == {"", "{"}

\* a2a_server.py line 142 on such a body: json.loads raises JSONDecodeError,
\* a ValueError, with the text str(e) gives
RequestJson(raw) ==
    IF raw = ""
    THEN Raise("ValueError", "Expecting value: line 1 column 1 (char 0)")
    ELSE Raise("ValueError",
               "Expecting property name enclosed in double quotes: "
               \o "line 1 column 2 (char 1)")

\* a handler that answers the exception as a fault of the client
ExecuteEndpointErrorAs400(e) ==
    JSONResponse([error |-> "Execution failed: " \o e.text], 400)

\* a2a_server.py lines 156-161
ExecuteEndpointError(e) ==
    JSONResponse([error |-> "Execution failed: " \o e.text], 500)

\* a2a_server.py lines 139-161: POST /execute with a body that line 142
\* cannot parse.  The exception is raised before execute is called; the
\* handler of line 156 makes the response of it, and an exception it does
\* not catch leaves the endpoint without a response.
ExecuteEndpointRaises(raw) ==
    /\ running = 0
    /\ last' = [op |-> "POST /execute", arg |-> None,
                ret |-> IF CatchesException(RequestJson(raw))
                        THEN Some(ExecuteEndpointError(RequestJson(raw)))
                        ELSE None]
    /\ UNCHANGED <<executions, keys, tasks, running, clock, cancelled,
                   agent_executor, scripts>>

\* a response whose code follows the status of the result
ExecuteEndpointResponseByStatus(task) ==
    IF task.pc = "returned" /\ task.ret[1].status = "success"
    THEN JSONResponse(task.ret[1], 200)
    ELSE JSONResponse([error |-> "Execution failed"], 500)

\* a2a_server.py lines 152-161: the response of POST /execute once the
\* execute call it awaits has ended, by a return or by an exception
ExecuteEndpointResponse(task) ==
    IF task.pc = "returned"
    THEN JSONResponse(task.ret[1], 200)
    ELSE JSONResponse([error |-> "Execution failed: " \o task.exc[1].text], 500)

\* a response that tells an unknown id from a refused cancel
CancelEndpointNotFound404(result) ==
    JSONResponse(result,
                 IF DictGet(result, "status", None) # "error" THEN 200
                 ELSE IF result.message = "Execution not found" THEN 404
                 ELSE 400)

\* a2a_server.py lines 169-170: the response POST /cancel/{id} makes of what
\* cancel returned
CancelEndpoint(result) ==
    JSONResponse(result,
                 IF DictGet(result, "status", None) # "error" THEN 200 ELSE 400)

\* chat.py lines 138-141: the same for POST /chat/cancel/{id}; the
\* HTTPException passes the handler of line 143
CancelChatExecution(result) ==
    IF DictGet(result, "status", None) = "error"
    THEN HTTPException(400, DictGet(result, "message", "Cancellation failed"))
    ELSE JSONResponse(result, 200)

\* a response that takes a failed execution for a missing one
StatusEndpointFailedIs404(result) ==
    JSONResponse(result,
                 IF DictGet(result, "status", None) \notin {"error", "failed"}
                 THEN 200 ELSE 404)

\* a2a_server.py lines 185-186: the response GET /status/{id} makes of what
\* get_execution_status returned
StatusEndpoint(result) ==
    JSONResponse(result,
                 IF DictGet(result, "status", None) # "error" THEN 200 ELSE 404)

\* chat.py lines 108-111: the same for GET /chat/status/{id}
GetChatStatus(result) ==
    IF DictGet(result, "status", None) = "error"
    THEN HTTPException(404, "Execution not found")
    ELSE JSONResponse(result, 200)

\* chat.py lines 22-27 as the first step of a chat route
GetOrCreateAgentExecutor ==
    /\ running = 0
    /\ agent_executor' = GetOrCreate(agent_executor)
    /\ last' = NoCall
    /\ UNCHANGED <<executions, keys, tasks, running, clock, cancelled, scripts>>

\* the messages of POST /chat/message (ChatRequest.message is a required str)
ChatMessages == {"hello"}

\* chat.py lines 61-65
ExecutionRequest(message) ==
    [message |-> message, conversation_id |-> None,
     metadata |-> [k \in {} |-> ""]]

\* chat.py lines 57-69: POST /chat/message up to the point where execute is
\* suspended.  The executor is the one chat.py holds; its store is
\* `executions` when it is the object the A2AServer holds.
ChatWithAgent(t, message) ==
    /\ agent_executor.chat # None
    /\ agent_executor.chat = agent_executor.a2a_server
    /\ ExecCreate(t, ExecutionRequest(message))

\* ----------------------------------------------------------------- Next
Next ==
    \/ \E t \in Tasks, request \in Requests : ExecCreate(t, request)
    \/ \E t \in Tasks, body \in Bodies : ExecuteEndpoint(t, body)
    \/ \E t \in Tasks : ExecBegin(t)
    \/ \E t \in Tasks, ev \in AgentEvents : ExecComplete(t, ev)
    \/ \E t \in Tasks, ev \in AgentEvents : ExecFail(t, ev)
    \/ \E t \in Tasks : ExecExcept(t)
    \/ \E execution_id \in Ids : Cancel(execution_id)
    \/ \E execution_id \in Ids : GetExecutionStatus(execution_id)
    \/ ListExecutions

Spec == Init /\ [][Next]_vars

\* the executions whose termination is followed: direct calls of execute with
\* a request the validation refuses and with one it lets through, processor
\* calls that return and that raise, and cancels of the ids given out
FairRequests == {request \in Requests : ~Truthy(MessageOf(request)) => request = [k \in {} |-> ""]}
FairEvents == {ev \in AgentEvents : ev.ev # "invoke_error"}

FairNext ==
    \/ \E t \in Tasks, request \in FairRequests : ExecCreate(t, request)
    \/ \E t \in Tasks : ExecBegin(t)
    \/ \E t \in Tasks, ev \in FairEvents : ExecComplete(t, ev)
    \/ \E t \in Tasks, ev \in FairEvents : ExecFail(t, ev)
    \/ \E t \in Tasks : ExecExcept(t)
    \/ \E execution_id \in Ids \ {UnknownId} : Cancel(execution_id)

\* the event loop runs every task that is ready: an execute that can go on
\* does; and the message processor ends every call, by a return or by an
\* exception (what the claim about termination supposes of it)
ProcessorEnds(t) ==
    \E ev \in FairEvents : ExecComplete(t, ev) \/ ExecFail(t, ev)

Fairness ==
    \A t \in Tasks :
        /\ WF_vars(ExecBegin(t))
        /\ WF_vars(ExecExcept(t))
        /\ WF_vars(ProcessorEnds(t))

FairSpec == Init /\ [][FairNext]_vars /\ Fairness

\* the service with both presentations: the A2A routes and the chat routes.
\* What a route does with a request is the subject of Spec; here the inputs
\* are one body of each kind, an agent that answers or a tracer that fails,
\* and the ids of the store.
ServiceBodies == {body \in Bodies : MessageMissing(body) \/ Truthy(MessageOf(body))}
ServiceEvents == {ev \in AgentEvents : ev.ev # "invoke_error"}

ServiceNext ==
    \/ GetOrCreateAgentExecutor
    \/ \E t \in Tasks, message \in ChatMessages : ChatWithAgent(t, message)
    \/ \E t \in Tasks, body \in ServiceBodies : ExecuteEndpoint(t, body)
    \/ \E t \in Tasks : ExecBegin(t)
    \/ \E t \in Tasks, ev \in ServiceEvents : ExecComplete(t, ev)
    \/ \E t \in Tasks, ev \in ServiceEvents : ExecFail(t, ev)
    \/ \E t \in Tasks : ExecExcept(t)
    \/ \E execution_id \in Ids \ {UnknownId} : Cancel(execution_id)

ServiceSpec == Init /\ [][ServiceNext]_vars

\* the A2A facade alone, with the requests its handlers cannot parse
FacadeNext ==
    \/ \E t \in Tasks, body \in ServiceBodies : ExecuteEndpoint(t, body)
    \/ \E raw \in UnparsedBodies : ExecuteEndpointRaises(raw)
    \/ \E t \in Tasks : ExecBegin(t)
    \/ \E t \in Tasks, ev \in ServiceEvents : ExecComplete(t, ev)
    \/ \E t \in Tasks, ev \in ServiceEvents : ExecFail(t, ev)
    \/ \E t \in Tasks : ExecExcept(t)
    \/ \E execution_id \in Ids \ {UnknownId} : Cancel(execution_id)

FacadeSpec == Init /\ [][FacadeNext]_vars

\* ============================== pipelines/create_search_index.py
\* what one call of the requests library can come back with: a response with
\* a status code, or an exception (no connection, timeout)
Response(status_code) == [raised |-> FALSE, status_code |-> status_code]
ConnectionError == [raised |-> TRUE, status_code |-> 0]
Responses == {Response(c) : c \in {200, 201, 202, 404, 500}} \cup {ConnectionError}

\* lines 139, 152, 165, 178, 191: what each step function returns
StepSucceeded(step, response) ==
    /\ ~response.raised
    /\ IF step = "run_indexer" THEN response.status_code = 202
       ELSE IF step = "check_indexer_status" THEN response.status_code = 200
       ELSE response.status_code \in {200, 201}

\* the request a step sends
StepRequest(step) ==
    IF step = "run_indexer" THEN [method |-> "POST", step |-> step]
    ELSE IF step = "check_indexer_status" THEN [method |-> "GET", step |-> step]
    ELSE [method |-> "PUT", step |-> step]

\* a main that prints the completion message only after a good status check
CompletionIfStatusOk(response) == StepSucceeded("check_indexer_status", response)

\* lines 238-242: the result of check_indexer_status is dropped, so the
\* completion message is printed whenever the call returns
Completion(response) == ~response.raised

\* the request of step k and its response, added to what was sent
Sent(k, response) ==
    Append(pipeline.requests,
           [request |-> StepRequest(Steps[k]), response |-> response])

\* lines 213-230: `if not step(): return` for one of the steps 1 to 4.  An
\* exception of requests is caught nowhere and ends main.
AfterStep(k, response) ==
    [pc |-> IF response.raised THEN "raised"
            ELSE IF StepSucceeded(Steps[k], response) THEN Steps[k + 1]
            ELSE "returned",
     requests |-> Sent(k, response),
     completed |-> FALSE]

\* lines 133-145 and 213-216
CreateOrUpdateDatasource(response) ==
    /\ pipeline.pc = Steps[1]
    /\ pipeline' = AfterStep(1, response)
    /\ UNCHANGED <<service, upload, cleanup, redeployment>>

\* lines 147-159 and 218-221
CreateOrUpdateIndex(response) ==
    /\ pipeline.pc = Steps[2]
    /\ pipeline' = AfterStep(2, response)
    /\ UNCHANGED <<service, upload, cleanup, redeployment>>

\* lines 161-173 and 223-226
CreateOrUpdateIndexer(response) ==
    /\ pipeline.pc = Steps[3]
    /\ pipeline' = AfterStep(3, response)
    /\ UNCHANGED <<service, upload, cleanup, redeployment>>

\* lines 175-187 and 228-231
RunIndexer(response) ==
    /\ pipeline.pc = Steps[4]
    /\ pipeline' = AfterStep(4, response)
    /\ UNCHANGED <<service, upload, cleanup, redeployment>>

\* lines 189-208 and 233-242: the wait, the status check and the end of main
CheckIndexerStatus(response) ==
    /\ pipeline.pc = Steps[5]
    /\ pipeline' =
          [pc |-> IF response.raised THEN "raised" ELSE "returned",
           requests |-> Sent(5, response),
           completed |-> Completion(response)]
    /\ UNCHANGED <<service, upload, cleanup, redeployment>>

PipelineNext ==
    \/ \E response \in Responses : CreateOrUpdateDatasource(response)
    \/ \E response \in Responses : CreateOrUpdateIndex(response)
    \/ \E response \in Responses : CreateOrUpdateIndexer(response)
    \/ \E response \in Responses : RunIndexer(response)
    \/ \E response \in Responses : CheckIndexerStatus(response)

PipelineSpec == Init /\ [][PipelineNext]_vars

\* ======================= pipelines/create_search_index_direct.py
\* line 147
batch_size == 50

\* a list of n documents read from Cosmos DB; document k has the id k
Documents(n) == [k \in 1..n |-> [id |-> k]]

\* lines 132-144: the search document made of a document (its id as a
\* string; the other fields are copied)
SearchDocument(doc) == [id |-> ToString(doc.id)]

\* line 155: the element of the batch made of a search document
UploadElement(search_doc) == [action |-> "mergeOrUpload", id |-> search_doc.id]

UploadResponses == {Response(200), Response(207), Response(400), ConnectionError}

\* a test that takes 207, the partial success, for a failure
BatchSucceededOnly200(response) == response.status_code = 200

\* line 161
BatchSucceeded(response) == response.status_code \in {200, 207}

\* line 151: search_documents[i:i + batch_size], i counted from 0
Slice(search_documents, i) ==
    SubSeq(search_documents, i + 1,
           IF i + batch_size <= Len(search_documents)
           THEN i + batch_size ELSE Len(search_documents))

\* lines 125-148: the call up to the loop, or to the return of line 129
UploadToSearchIndex(n) ==
    /\ upload = NotRun
    /\ upload' =
          IF Len(Documents(n)) = 0
          THEN [pc |-> "returned", search_documents |-> << >>, i |-> 0,
                posts |-> << >>, total_uploaded |-> 0, ret |-> Some(FALSE)]
          ELSE [pc |-> "loop",
                search_documents |->
                    [k \in 1..n |-> SearchDocument(Documents(n)[k])],
                i |-> 0, posts |-> << >>, total_uploaded |-> 0, ret |-> None]
    /\ UNCHANGED <<service, pipeline, cleanup, redeployment>>

\* lines 150-169: one turn of the loop, and the return after the last one.
\* An exception of requests.post is caught nowhere and ends the call.
PostBatch(response) ==
    /\ upload # NotRun
    /\ upload.pc = "loop"
    /\ LET batch == Slice(upload.search_documents, upload.i)
           upload_batch == [value |-> [k \in 1..Len(batch) |-> UploadElement(batch[k])]]
           total == IF ~response.raised /\ BatchSucceeded(response)
                    THEN upload.total_uploaded + Len(batch)
                    ELSE upload.total_uploaded
           more == upload.i + batch_size < Len(upload.search_documents)
       IN  upload' =
             [upload EXCEPT
                !.posts = Append(@, [json |-> upload_batch, response |-> response]),
                !.total_uploaded = total,
                !.i = IF response.raised THEN @ ELSE @ + batch_size,
                !.pc = IF response.raised THEN "raised"
                       ELSE IF more THEN "loop" ELSE "returned",
                !.ret = IF response.raised \/ more THEN None
                        ELSE Some(total > 0)]
    /\ UNCHANGED <<service, pipeline, cleanup, redeployment>>

UploadNext ==
    \/ \E n \in 0..MaxDocs : UploadToSearchIndex(n)
    \/ \E response \in UploadResponses : PostBatch(response)

UploadSpec == Init /\ [][UploadNext]_vars

\* ============================================== delete_agent53.py
\* lines 29-30
agent53_id == "asst_2mbh9GFHWaAMxY5gEbW8ZO93"
agent53_name == "Agent53"

\* the agents a project can hold when the script is run: an id is held by at
\* most one agent, a name can be held by several
AgentIds == {agent53_id, "asst_A", "asst_B"}
AgentNames == {agent53_name, "Cora", "Zava Inventory Agent"}
Listings == UNION {[held -> AgentNames] : held \in SUBSET AgentIds}

\* lines 34-40: the search of the first listing
FoundAgent53(agents) ==
    \E id \in DOMAIN agents : id = agent53_id \/ agents[id] = agent53_name

\* lines 55-60: the search of the second listing
StillExists(agents) == \E id \in DOMAIN agents : id = agent53_id

\* what project_client.agents.delete_agent(id) leaves in the project
Deleted(agents, id) == [k \in DOMAIN agents \ {id} |-> agents[k]]

\* lines 18-44: the client, the first listing and the search.  An exception
\* of the client or of the listing is caught at line 79.
ListAgents(listing, raises) ==
    /\ cleanup = NotRun
    /\ cleanup' =
          IF raises
          THEN [pc |-> "returned", agents |-> listing, ret |-> Some(FALSE)]
          ELSE IF ~FoundAgent53(listing)
          THEN [pc |-> "returned", agents |-> listing, ret |-> Some(TRUE)]
          ELSE [pc |-> "delete", agents |-> listing, ret |-> None]
    /\ UNCHANGED <<service, pipeline, upload, redeployment>>

\* lines 47-50 and 75-77: delete_agent with the id of line 29, whatever agent
\* the search found.  The service refuses an id no agent has, and any call can
\* fail; the exception is caught at line 75.
DeleteAgent(raises) ==
    /\ cleanup # NotRun
    /\ cleanup.pc = "delete"
    /\ cleanup' =
          IF raises \/ agent53_id \notin DOMAIN cleanup.agents
          THEN [cleanup EXCEPT !.pc = "returned", !.ret = Some(FALSE)]
          ELSE [cleanup EXCEPT !.pc = "verify",
                               !.agents = Deleted(@, agent53_id)]
    /\ UNCHANGED <<service, pipeline, upload, redeployment>>

\* lines 52-77: the second listing and the answer
VerifyDeletion(raises) ==
    /\ cleanup # NotRun
    /\ cleanup.pc = "verify"
    /\ cleanup' =
          [cleanup EXCEPT
             !.pc = "returned",
             !.ret = IF raises \/ StillExists(cleanup.agents)
                     THEN Some(FALSE) ELSE Some(TRUE)]
    /\ UNCHANGED <<service, pipeline, upload, redeployment>>

CleanupNext ==
    \/ \E listing \in Listings, raises \in BOOLEAN : ListAgents(listing, raises)
    \/ \E raises \in BOOLEAN : DeleteAgent(raises)
    \/ \E raises \in BOOLEAN : VerifyDeletion(raises)

CleanupSpec == Init /\ [][CleanupNext]_vars

\* ========================================== verify_redeployment.py
\* lines 33-38 and 40-45, in the order of the source
old_ids == <<"asst_kFHIDkcsaGMGwFpEOYdxFNlg", "asst_2wdhd0DbusytjpbvOTKBfT33",
             "asst_T6E1gkGKNZJDE8nJvKk6SHwS", "asst_XZ5zM7JIn830rvuCeTqC5Uj2">>
expected_agents == <<"Cora", "Zava Interior Design Agent",
                     "Zava Inventory Agent", "Zava Customer Loyalty Agent">>
OldIds == {old_ids[k] : k \in DOMAIN old_ids}
ExpectedAgents == {expected_agents[k] : k \in DOMAIN expected_agents}

\* the agents that can be listed: each expected agent under its old id, each
\* under a new id, and one more agent
Candidates ==
    {[id |-> old_ids[k], name |-> expected_agents[k]] : k \in DOMAIN old_ids}
    \cup {[id |-> "asst_new" \o ToString(k), name |-> expected_agents[k]] :
             k \in DOMAIN expected_agents}
    \cup {[id |-> "asst_other", name |-> agent53_name]}

\* lines 47-62
NewAgents(agents) == {agent \in agents : agent.id \notin OldIds}
FoundAgents(agents) ==
    {agent.name : agent \in {a \in NewAgents(agents) : a.name \in ExpectedAgents}}

\* lines 70-85: the answer for a listing
Verdict(agents) ==
    IF ExpectedAgents \ FoundAgents(agents) # {} THEN FALSE
    ELSE IF /\ Cardinality(NewAgents(agents)) >= 4
            /\ Cardinality(FoundAgents(agents)) = 4
    THEN TRUE
    ELSE FALSE

\* lines 15-89: the whole function; an exception of the client or of the
\* listing is caught at line 87
VerifySuccessfulRedeployment(agents, raises) ==
    /\ redeployment = NotRun
    /\ redeployment' =
          [pc |-> "returned", agents |-> agents, raised |-> raises,
           ret |-> IF raises THEN Some(FALSE) ELSE Some(Verdict(agents))]
    /\ UNCHANGED <<service, pipeline, upload, cleanup>>

RedeploymentNext ==
    \E agents \in SUBSET Candidates, raises \in BOOLEAN :
        VerifySuccessfulRedeployment(agents, raises)

RedeploymentSpec == Init /\ [][RedeploymentNext]_vars

\* ============================================================ the claims
Started == Cardinality({t \in Tasks : tasks[t].pc # "idle"})
Returned(t) == tasks[t].pc = "returned"
RetOf(t) == tasks[t].ret[1]

\* the status changes the lifecycle allows
LegalTransitions ==
    { <<"PENDING", "RUNNING">>, <<"RUNNING", "COMPLETED">>,
      <<"RUNNING", "FAILED">>, <<"PENDING", "CANCELLED">>,
      <<"RUNNING", "CANCELLED">> }

\* C1: in every interleaving, a record that is Completed, Cancelled or
\* Failed keeps its status, result, error and end_time in every later step,
\* and every change of status is one of Pending->Running, Running->Completed,
\* Running->Failed, Pending->Cancelled, Running->Cancelled.
C1_TerminalIsFinal ==
    [][\A id \in DOMAIN executions :
         /\ executions[id].status \in Terminal =>
               /\ executions'[id].status = executions[id].status
               /\ executions'[id].result = executions[id].result
               /\ executions'[id].error = executions[id].error
               /\ executions'[id].end_time = executions[id].end_time
         /\ executions'[id].status # executions[id].status =>
               <<executions[id].status, executions'[id].status>> \in LegalTransitions
      ]_vars

\* C2: in every reachable state every record has a result exactly when it
\* is Completed and an error exactly when it is Failed.
C2_ResultIffCompleted ==
    \A id \in DOMAIN executions :
        /\ executions[id].result # None <=> executions[id].status = "COMPLETED"
        /\ executions[id].error # None <=> executions[id].status = "FAILED"

\* a record cancelled while its execute was suspended was then completed by
\* it, and another one failed
C2_Witness ==
    \E id, other \in DOMAIN executions :
        /\ id \in cancelled
        /\ executions[id].status = "COMPLETED"
        /\ executions[other].status = "FAILED"

\* C3: in every reachable state every record has end_time None exactly when
\* it is Pending or Running, and so has every snapshot that
\* get_execution_status returns for a known id.
C3_EndTimeIffLive ==
    \A id \in DOMAIN executions :
        LET snapshot == StatusSnapshot(executions, id) IN
        /\ executions[id].end_time = None
              <=> executions[id].status \in {"PENDING", "RUNNING"}
        /\ snapshot.end_time = None <=> snapshot.status \in {"pending", "running"}

\* get_execution_status reports one record as cancelled with an end_time
\* and another as running without one
C3_Witness ==
    \E id, other \in DOMAIN executions :
        /\ StatusSnapshot(executions, id).status = "cancelled"
        /\ StatusSnapshot(executions, id).end_time # None
        /\ StatusSnapshot(executions, other).status = "running"
        /\ StatusSnapshot(executions, other).end_time = None

\* the request has no message, or an empty one
NoMessage(request) == "message" \notin DOMAIN request \/ request["message"] = ""

\* C4: execute never lets an exception out: whatever the request and whatever
\* process_message does, an execute call that has ended has returned a result
\* whose status is 'success' or 'error'.
C4_ExecuteIsTotal ==
    \A t \in Tasks :
        /\ tasks[t].pc # "raised"
        /\ Returned(t) =>
              /\ tasks[t].ret # None
              /\ RetOf(t).status \in {"success", "error"}

\* one call has returned after process_message raised, another after a
\* request without a message
C4_Witness ==
    \E t, u \in Tasks :
        /\ Returned(t) /\ tasks[t].outcome # None
        /\ tasks[t].outcome[1].kind = "raise"
        /\ RetOf(t).status = "error"
        /\ Returned(u) /\ "message" \notin DOMAIN tasks[u].request[1]
        /\ RetOf(u).status = "error"

\* C5: from the moment execute has returned, the execution_id of its result
\* is the id of a record: get_execution_status on it is never the not-found
\* error and reports a terminal status.
C5_ReturnedIdIsKnown ==
    \A t \in Tasks :
        Returned(t) =>
            LET id == RetOf(t).execution_id
                snapshot == StatusSnapshot(executions, id)
            IN /\ id \in DOMAIN executions
               /\ snapshot # NotFound(id)
               /\ snapshot.status \in {"completed", "failed", "cancelled"}

\* two calls have returned, get_execution_status reports the one as failed
\* and the other, which was cancelled while suspended, as completed
C5_Witness ==
    \E t, u \in Tasks :
        /\ Returned(t) /\ RetOf(t).status = "error"
        /\ StatusSnapshot(executions, RetOf(t).execution_id).status = "failed"
        /\ Returned(u) /\ RetOf(u).status = "success"
        /\ RetOf(u).execution_id \in cancelled
        /\ StatusSnapshot(executions, RetOf(u).execution_id).status = "completed"

\* C6: list_executions returns as many entries as execute calls have been
\* started; every started call has its own record, under an id that no
\* other call has, and no record is ever removed or replaced.
C6_OneRecordPerExecute ==
    /\ Len(Summaries(executions, keys)) = Started
    /\ Cardinality(DOMAIN executions) = Started
    /\ \A t \in Tasks :
          tasks[t].pc # "idle" =>
              /\ IdOfTask(t) \in DOMAIN executions
              /\ executions[IdOfTask(t)].id = IdOfTask(t)
              /\ executions[IdOfTask(t)].request = tasks[t].request[1]
              /\ \E j \in 1..Len(Summaries(executions, keys)) :
                    Summaries(executions, keys)[j].execution_id = IdOfTask(t)
    /\ \A t, u \in Tasks :
          (t # u /\ tasks[t].pc # "idle" /\ tasks[u].pc # "idle") =>
              IdOfTask(t) # IdOfTask(u)

\* list_executions returns two entries, one of a record cancelled and
\* completed afterwards, one of a failed record
C6_Witness ==
    LET list == Summaries(executions, keys) IN
    /\ Len(list) = 2
    /\ \E i, j \in 1..2 :
          /\ list[i].status = "completed"
          /\ list[i].execution_id \in cancelled
          /\ list[j].status = "failed"

\* the message cancel gives for a record that is already terminal
AlreadyMessage(status) ==
    CASE status = "COMPLETED" -> "Execution already completed"
      [] status = "FAILED" -> "Execution already failed"
      [] status = "CANCELLED" -> "Execution already cancelled"

\* C7: a cancel that finds its record Pending or Running returns status
\* 'cancelled' and leaves the record Cancelled with an end_time; a cancel of
\* an id that an earlier cancel has cancelled returns status 'error' with the
\* message 'Execution already cancelled'.
C7_SecondCancelSaysCancelled ==
    last.op = "cancel" =>
        LET id == last.arg[1]
            r == last.ret[1]
        IN /\ r.status = "cancelled" =>
                 /\ executions[id].status = "CANCELLED"
                 /\ executions[id].end_time # None
           /\ (id \in cancelled /\ r.status # "cancelled") =>
                 /\ r.status = "error"
                 /\ r.message = "Execution already cancelled"

\* C8: in its two error cases cancel leaves the store as it is and returns an
\* error value: 'Execution not found' for an id that no record has, with no
\* record created, and 'Execution already <status>' with the record's
\* current status for a Completed, Failed or Cancelled record.
C8_CancelErrorCases ==
    /\ \A id \in Callable :
          /\ id \notin DOMAIN executions =>
                /\ CancelResult(executions, id) =
                      [execution_id |-> id, status |-> "error",
                       message |-> "Execution not found"]
                /\ CancelStore(executions, id, clock) = executions
          /\ (id \in DOMAIN executions /\ executions[id].status \in Terminal) =>
                /\ CancelResult(executions, id) =
                      [execution_id |-> id, status |-> "error",
                       message |-> AlreadyMessage(executions[id].status)]
                /\ CancelStore(executions, id, clock) = executions
    /\ (last.op = "cancel" /\ last.ret[1].status = "error") =>
          LET id == last.arg[1] IN
          IF id \in DOMAIN executions
          THEN /\ executions[id].status \in Terminal
               /\ last.ret[1].message = AlreadyMessage(executions[id].status)
          ELSE last.ret[1].message = "Execution not found"
    /\ last.op = "cancel" =>
          last.ret[1].status = "error" \/ last.arg[1] \in cancelled

\* cancel has just refused a Failed record, and the store holds a Completed
\* record too
C8_Witness ==
    /\ last.op = "cancel"
    /\ last.ret[1].message = "Execution already failed"
    /\ \E id \in DOMAIN executions : executions[id].status = "COMPLETED"

\* C9: an execute whose request has no message, or an empty one, never calls
\* process_message; it returns a result with status 'error' and leaves its
\* record Failed with an error text that contains 'required'.
C9_MessageRequired ==
    \A t \in Tasks :
        (tasks[t].pc # "idle" /\ NoMessage(tasks[t].request[1])) =>
            /\ tasks[t].calls = 0
            /\ tasks[t].pc \in {"created", "except", "returned"}
            /\ Returned(t) =>
                  /\ RetOf(t).status = "error"
                  /\ executions[IdOfTask(t)].status = "FAILED"
                  /\ executions[IdOfTask(t)].error # None
                  /\ Contains(executions[IdOfTask(t)].error[1], "required")

\* one execute without a message and one with an empty message have returned
C9_Witness ==
    \E t, u \in Tasks :
        /\ Returned(t) /\ "message" \notin DOMAIN tasks[t].request[1]
        /\ Returned(u) /\ "message" \in DOMAIN tasks[u].request[1]
        /\ tasks[u].request[1]["message"] = ""
        /\ executions[IdOfTask(t)].status = "FAILED"
        /\ executions[IdOfTask(u)].status = "FAILED"

\* C10: when process_message has returned the text w to an execute (whose
\* message is then not empty), that execute returns a result with response w
\* and status 'success', and from its return on the record is Completed and
\* holds the returned result.
C10_SuccessResult ==
    \A t \in Tasks :
        (Returned(t) /\ tasks[t].outcome # None
            /\ tasks[t].outcome[1].kind = "return") =>
            /\ ~NoMessage(tasks[t].request[1])
            /\ RetOf(t).response = tasks[t].outcome[1].text
            /\ RetOf(t).status = "success"
            /\ RetOf(t).execution_id = IdOfTask(t)
            /\ executions[IdOfTask(t)].status = "COMPLETED"
            /\ executions[IdOfTask(t)].result = Some(RetOf(t))

\* an execute has returned 'world', although its record was cancelled while
\* it was suspended
C10_Witness ==
    \E t \in Tasks :
        /\ Returned(t)
        /\ RetOf(t).response = "world"
        /\ RetOf(t).status = "success"
        /\ IdOfTask(t) \in cancelled
        /\ executions[IdOfTask(t)].status = "COMPLETED"

\* C11: when process_message raises into an execute, that execute does not
\* raise: it returns a result with status 'error' whose response and error
\* both contain the text of the exception, and from its return on the record
\* is Failed with an error that contains the text, no result and an end_time.
C11_ProcessorErrorIsFailed ==
    \A t \in Tasks :
        (tasks[t].outcome # None /\ tasks[t].outcome[1].kind = "raise") =>
            LET text == tasks[t].outcome[1].exc.text
                rec == executions[IdOfTask(t)]
            IN /\ tasks[t].pc \in {"except", "returned"}
               /\ Returned(t) =>
                     /\ RetOf(t).status = "error"
                     /\ Contains(RetOf(t).response, text)
                     /\ Contains(RetOf(t).error, text)
                     /\ RetOf(t).execution_id = IdOfTask(t)
                     /\ rec.status = "FAILED"
                     /\ rec.error # None /\ Contains(rec.error[1], text)
                     /\ rec.result = None
                     /\ rec.end_time # None

\* process_message has raised into an execute whose record a cancel had
\* already cancelled, and the execute has returned
C11_Witness ==
    \E t \in Tasks :
        /\ Returned(t)
        /\ tasks[t].outcome # None /\ tasks[t].outcome[1].kind = "raise"
        /\ IdOfTask(t) \in cancelled
        /\ RetOf(t).status = "error"

\* C12: a call of get_execution_status or list_executions changes no record
\* and not the ids of the store, and get_execution_status on an id that no
\* record has returns status 'error' with the message 'Execution not found'.
C12_ReadsAreReadOnly ==
    /\ [](\A id \in Callable :
            id \notin DOMAIN executions =>
                StatusSnapshot(executions, id) =
                    [execution_id |-> id, status |-> "error",
                     message |-> "Execution not found"])
    /\ [][((\E id \in Ids : GetExecutionStatus(id)) \/ ListExecutions) =>
              /\ executions' = executions
              /\ keys' = keys
              /\ DOMAIN executions' = DOMAIN executions]_vars

\* the store holds a Running and a terminal record, the id asked for is not
\* among them and the answer is the not-found value
C12_Witness ==
    /\ \E id, other \in DOMAIN executions :
          /\ executions[id].status = "RUNNING"
          /\ executions[other].status \in Terminal
    /\ UnknownId \notin DOMAIN executions
    /\ StatusSnapshot(executions, UnknownId).status = "error"
    /\ Len(Summaries(executions, keys)) = Cardinality(DOMAIN executions)

\* an execute call that has ended, by a return or by an exception
Ended(t) == tasks[t].pc \in {"returned", "raised"}

\* C13: POST /execute answers 400 exactly when the body has no 'message'
\* key, and then no execute call is made and no record is created; for a body
\* with a 'message' key, an empty one too, one execute call is made and one
\* record is created, and the answer is not 400.
C13_ExecuteEndpointValidation ==
    /\ [](last.op = "POST /execute" =>
            /\ last.ret[1].status_code = 400
            /\ "message" \notin DOMAIN last.arg[1])
    /\ [](\A t \in Tasks :
            (Ended(t) /\ "message" \in DOMAIN tasks[t].request[1]) =>
                ExecuteEndpointResponse(tasks[t]).status_code # 400)
    /\ [][\A t \in Tasks, body \in Bodies :
            ExecuteEndpoint(t, body) =>
                IF "message" \in DOMAIN body
                THEN /\ tasks[t].pc = "idle" /\ tasks'[t].pc = "created"
                     /\ tasks'[t].request = Some(body)
                     /\ \A u \in Tasks \ {t} : tasks'[u] = tasks[u]
                     /\ Cardinality(DOMAIN executions') =
                           Cardinality(DOMAIN executions) + 1
                     /\ \A id \in DOMAIN executions :
                           id \in DOMAIN executions' /\ executions'[id] = executions[id]
                     /\ last'.op # "POST /execute"
                ELSE /\ last'.op = "POST /execute"
                     /\ last'.ret[1].status_code = 400
                     /\ tasks' = tasks
                     /\ executions' = executions
                     /\ keys' = keys]_vars

\* POST /execute has just answered 400, after a request with an empty message
\* was taken and its execution failed
C13_Witness ==
    /\ last.op = "POST /execute"
    /\ last.ret[1].status_code = 400
    /\ \E t \in Tasks :
          /\ Returned(t)
          /\ tasks[t].request[1] = [message |-> ""]
          /\ executions[IdOfTask(t)].status = "FAILED"
          /\ Cardinality(DOMAIN executions) = 1

\* C14: when POST /execute has called execute, its answer has status code 200
\* and carries the result of execute, whether that has status 'success' or
\* 'error': a Failed execution is answered with 200 and a body of status
\* 'error'.
C14_ExecuteAnswers200 ==
    \A t \in Tasks :
        (Ended(t) /\ ~MessageMissing(tasks[t].request[1])) =>
            LET response == ExecuteEndpointResponse(tasks[t]) IN
            /\ response.status_code = 200
            /\ response.content = RetOf(t)
            /\ response.content.status \in {"success", "error"}
            /\ executions[IdOfTask(t)].status = "FAILED" =>
                  response.content.status = "error"

\* one POST /execute with an empty message and one whose processor call
\* raised have both been answered with 200 and a body of status 'error'
C14_Witness ==
    \E t, u \in Tasks :
        /\ Returned(t) /\ tasks[t].request[1] = [message |-> ""]
        /\ Returned(u) /\ tasks[u].outcome # None
        /\ tasks[u].outcome[1].kind = "raise"
        /\ \A v \in {t, u} :
              /\ ExecuteEndpointResponse(tasks[v]).status_code = 200
              /\ ExecuteEndpointResponse(tasks[v]).content.status = "error"
              /\ executions[IdOfTask(v)].status = "FAILED"

\* the record of the id is there and is Pending or Running
Live(execs, id) == id \in DOMAIN execs /\ execs[id].status \notin Terminal

\* C15: POST /cancel/{id} and POST /chat/cancel/{id} answer 200 exactly when
\* the record is there and not terminal when the call is made, and the record
\* is Cancelled afterwards; they answer 400 for an id that no record has and
\* for a terminal record, and never 404.
C15_CancelAnswers ==
    /\ \A id \in Callable :
          LET result == CancelResult(executions, id)
              a2a == CancelEndpoint(result)
              chat == CancelChatExecution(result)
          IN /\ a2a.status_code = 200 <=> Live(executions, id)
             /\ a2a.status_code = 400 <=> ~Live(executions, id)
             /\ chat.status_code = a2a.status_code
             /\ a2a.status_code = 200 =>
                   CancelStore(executions, id, clock)[id].status = "CANCELLED"
    /\ last.op = "cancel" =>
          LET id == last.arg[1]
              a2a == CancelEndpoint(last.ret[1])
              chat == CancelChatExecution(last.ret[1])
          IN /\ a2a.status_code \in {200, 400}
             /\ chat.status_code = a2a.status_code
             /\ a2a.status_code = 200 =>
                   /\ id \in cancelled
                   /\ executions[id].status = "CANCELLED"
             /\ a2a.status_code = 400 =>
                   id \notin DOMAIN executions \/ executions[id].status \in Terminal

\* a cancel of a Failed record has just been answered with 400, an unknown
\* id would get 400, and a Running record would get 200
C15_Witness ==
    /\ last.op = "cancel"
    /\ last.arg[1] \in DOMAIN executions
    /\ executions[last.arg[1]].status = "FAILED"
    /\ CancelEndpoint(last.ret[1]).status_code = 400
    /\ CancelChatExecution(last.ret[1]).status_code = 400
    /\ CancelEndpoint(CancelResult(executions, UnknownId)).status_code = 400
    /\ \E id \in DOMAIN executions :
          /\ executions[id].status = "RUNNING"
          /\ CancelEndpoint(CancelResult(executions, id)).status_code = 200

\* C16: GET /status/{id} and GET /chat/status/{id} answer 404 if and only
\* if no record has the id; for the id of a record, whatever its status, they
\* answer 200 with the snapshot of the record.
C16_StatusAnswers ==
    \A id \in Callable :
        LET result == StatusSnapshot(executions, id)
            a2a == StatusEndpoint(result)
            chat == GetChatStatus(result)
        IN /\ a2a.status_code = 404 <=> id \notin DOMAIN executions
           /\ chat.status_code = a2a.status_code
           /\ id \in DOMAIN executions =>
                 /\ a2a.status_code = 200
                 /\ a2a.content = result /\ chat.content = result
                 /\ result.execution_id = id
                 /\ result.status = StatusValue(executions[id].status)

\* the store holds a Failed and a Cancelled record, both answered with 200,
\* and the unknown id is answered with 404
C16_Witness ==
    /\ \E id, other \in DOMAIN executions :
          /\ executions[id].status = "FAILED"
          /\ executions[other].status = "CANCELLED"
          /\ StatusEndpoint(StatusSnapshot(executions, id)).status_code = 200
          /\ GetChatStatus(StatusSnapshot(executions, id)).content.status = "failed"
          /\ StatusEndpoint(StatusSnapshot(executions, other)).status_code = 200
    /\ StatusEndpoint(StatusSnapshot(executions, UnknownId)).status_code = 404
    /\ GetChatStatus(StatusSnapshot(executions, UnknownId)).status_code = 404

\* C18: a cancel that succeeds while execute is suspended in process_message
\* does not stop that execute: the call of process_message can still end,
\* and when it has, execute returns its outcome to its caller, status
\* 'success' with the response or status 'error'.
C18_CancelDoesNotInterrupt ==
    \A t \in Tasks :
        (tasks[t].pc # "idle" /\ IdOfTask(t) \in cancelled) =>
            /\ tasks[t].calls = 1
            /\ tasks[t].pc \in {"awaiting", "except", "returned"}
            /\ (tasks[t].pc = "awaiting" /\ running = 0) =>
                  /\ ENABLED (\E ev \in AgentEvents : ExecComplete(t, ev))
                  /\ ENABLED (\E ev \in AgentEvents : ExecFail(t, ev))
            /\ Returned(t) =>
                  /\ tasks[t].outcome # None
                  /\ tasks[t].outcome[1].kind = "return" =>
                        /\ RetOf(t).status = "success"
                        /\ RetOf(t).response = tasks[t].outcome[1].text
                  /\ tasks[t].outcome[1].kind = "raise" =>
                        /\ RetOf(t).status = "error"
                        /\ Contains(RetOf(t).error, tasks[t].outcome[1].exc.text)

\* two executes were cancelled while suspended; one has returned 'success'
\* with the response, the other 'error'
C18_Witness ==
    \E t, u \in Tasks :
        /\ Returned(t) /\ RetOf(t).status = "success"
        /\ RetOf(t).response = "world"
        /\ Returned(u) /\ RetOf(u).status = "error"
        /\ IdOfTask(t) \in cancelled /\ IdOfTask(u) \in cancelled

\* C19: for every execution process_message is called at most once, a
\* failure is not followed by another call, and the call is made only when
\* the record of the execution is there and has been set to Running.
C19_ProcessorCalledOnce ==
    \A t \in Tasks :
        /\ tasks[t].calls \in {0, 1}
        /\ tasks[t].pc \in {"idle", "created"} => tasks[t].calls = 0
        /\ tasks[t].pc = "awaiting" => tasks[t].calls = 1
        /\ tasks[t].outcome # None => tasks[t].calls = 1
        /\ tasks[t].calls = 1 =>
              /\ IdOfTask(t) \in DOMAIN executions
              /\ executions[IdOfTask(t)].status # "PENDING"
              /\ (tasks[t].pc = "awaiting" /\ IdOfTask(t) \notin cancelled) =>
                    executions[IdOfTask(t)].status = "RUNNING"

\* one execute has returned after its one call of process_message failed,
\* another is suspended in its call with its record Running
C19_Witness ==
    \E t, u \in Tasks :
        /\ Returned(t) /\ tasks[t].outcome # None
        /\ tasks[t].outcome[1].kind = "raise" /\ tasks[t].calls = 1
        /\ tasks[u].pc = "awaiting" /\ tasks[u].calls = 1
        /\ executions[IdOfTask(u)].status = "RUNNING"

\* what process_message gives back when self.agent.invoke has raised
InvokeFailed(t) ==
    /\ tasks[t].outcome # None
    /\ \E ev \in AgentEvents :
          /\ ev.ev = "invoke_error"
          /\ tasks[t].outcome[1] =
                ProcessMessage(MessageOf(tasks[t].request[1]), ev)

\* C20: when the invocation of the hosted agent inside process_message has
\* raised, the execute that made the call returns status 'error' and its
\* record is Failed with an error.
C20_InvokeErrorIsFailed ==
    \A t \in Tasks :
        (Returned(t) /\ InvokeFailed(t)) =>
            /\ RetOf(t).status = "error"
            /\ executions[IdOfTask(t)].status = "FAILED"
            /\ executions[IdOfTask(t)].error # None

\* the execution was made by POST /chat/message
ViaChat(id) == "conversation_id" \in DOMAIN executions[id].request

\* C17: the chat routes and the A2A routes work on one AgentExecutor: one
\* object is constructed, every call of get_agent_executor after the first
\* returns it, and so an execution made through /chat/message is found by the
\* A2A status, cancel and list routes, and one made through POST /execute by
\* the chat routes.
C17_OneController ==
    /\ agent_executor.objects = 1
    /\ agent_executor.global # None
    /\ agent_executor.a2a_server = agent_executor.global
    /\ agent_executor.chat # None =>
          /\ agent_executor.chat = agent_executor.global
          /\ agent_executor.chat = agent_executor.a2a_server
    /\ GetAgentExecutor(agent_executor) = agent_executor
    /\ \A t \in Tasks :
          tasks[t].pc # "idle" =>
              LET id == IdOfTask(t) IN
              /\ id \in DOMAIN executions
              /\ StatusEndpoint(StatusSnapshot(executions, id)).status_code = 200
              /\ GetChatStatus(StatusSnapshot(executions, id)).status_code = 200
              /\ CancelEndpoint(CancelResult(executions, id)).content
                    # NotFound(id)
              /\ CancelChatExecution(CancelResult(executions, id)).content
                    # [detail |-> "Execution not found"]
              /\ \E i \in 1..Len(keys) :
                    Summaries(executions, keys)[i].execution_id = id

\* chat.py has taken its reference, the store holds an execution made through
\* /chat/message and one made through POST /execute, and a cancel has
\* cancelled the one made through /chat/message
C17_Witness ==
    /\ agent_executor.chat # None
    /\ \E id, other \in DOMAIN executions :
          /\ ViaChat(id) /\ ~ViaChat(other)
          /\ id \in cancelled
          /\ StatusEndpoint(StatusSnapshot(executions, id)).status_code = 200
          /\ GetChatStatus(StatusSnapshot(executions, other)).status_code = 200

\* C21: when the event loop is fair and every call of process_message ends,
\* every record reaches a terminal status; and for as long as the call of
\* process_message of an execute has not ended, the status of its record is
\* changed by nothing but a cancel of its id.
C21_EveryRecordEnds ==
    /\ \A id \in Ids :
          (id \in DOMAIN executions)
              ~> (id \in DOMAIN executions /\ executions[id].status \in Terminal)
    /\ [][\A t \in Tasks :
            (tasks[t].pc = "awaiting" /\ tasks'[t].pc = "awaiting") =>
                \/ executions'[IdOfTask(t)] = executions[IdOfTask(t)]
                \/ /\ last'.op = "cancel"
                   /\ last'.arg = Some(IdOfTask(t))
                   /\ executions[IdOfTask(t)].status = "RUNNING"
                   /\ executions'[IdOfTask(t)].status = "CANCELLED"]_vars

\* one execute has returned and left its record Completed while another is
\* suspended in process_message with its record Running
C21_Witness ==
    \E t, u \in Tasks :
        /\ Returned(t) /\ executions[IdOfTask(t)].status = "COMPLETED"
        /\ tasks[u].pc = "awaiting"
        /\ executions[IdOfTask(u)].status = "RUNNING"
        /\ running = 0

\* C22: the id, the request and the start_time of a record keep the values
\* they got at creation through every later step, no record is ever removed,
\* and the id field of a record is the key it is stored under.
C22_CreationFieldsKept ==
    /\ [](\A id \in DOMAIN executions : executions[id].id = id)
    /\ [][\A id \in DOMAIN executions :
            /\ id \in DOMAIN executions'
            /\ executions'[id].id = executions[id].id
            /\ executions'[id].request = executions[id].request
            /\ executions'[id].start_time = executions[id].start_time]_vars

\* a record created at time 0 that was cancelled and a record that was
\* completed, when the clock has moved on
C22_Witness ==
    /\ clock > 0
    /\ \E id, other \in DOMAIN executions :
        /\ executions[id].status = "CANCELLED"
        /\ executions[id].start_time = Some(0)
        /\ executions[id].end_time = Some(clock)
        /\ executions[other].status = "COMPLETED"

\* C25: whenever cancel, get_execution_status or list_executions can be
\* called, no record is Pending: a record is Pending only while the execute
\* that made it holds the thread between creating it and setting it Running.
\* So no Pending record is ever cancelled.
C25_PendingNeverObserved ==
    /\ \A id \in Ids :
          (\/ ENABLED Cancel(id)
           \/ ENABLED GetExecutionStatus(id)
           \/ ENABLED ListExecutions)
              => \A k \in DOMAIN executions : executions[k].status # "PENDING"
    /\ \A k \in DOMAIN executions :
          executions[k].status = "PENDING" =>
              /\ k \notin cancelled
              /\ \E t \in Tasks :
                    /\ running = t
                    /\ tasks[t].pc = "created"
                    /\ tasks[t].execution_id = Some(k)

\* a record is Pending while an earlier one has been cancelled
C25_Witness ==
    /\ cancelled # {}
    /\ \E k \in DOMAIN executions : executions[k].status = "PENDING"
    /\ running # 0

\* C26: a step changes at most one record, the one it is addressed to: a
\* step of an execute call changes or creates only the record of that call,
\* cancel(id) changes only the record id, and the read calls change none.
C26_NoInterference ==
    [][\A id \in DOMAIN executions' :
          (id \notin DOMAIN executions \/ executions'[id] # executions[id]) =>
              \/ \E t \in Tasks :
                    /\ tasks'[t] # tasks[t]
                    /\ tasks'[t].execution_id = Some(id)
                    /\ \A u \in Tasks \ {t} : tasks'[u] = tasks[u]
              \/ /\ last'.op = "cancel"
                 /\ last'.arg = Some(id)
                 /\ tasks' = tasks]_vars

\* two executions side by side: one was cancelled and is still Cancelled, the
\* other ran to Completed after that cancel
C26_Witness ==
    \E t, u \in Tasks :
        /\ t # u
        /\ tasks[t].pc = "awaiting"
        /\ executions[IdOfTask(t)].status = "CANCELLED"
        /\ Returned(u)
        /\ executions[IdOfTask(u)].status = "COMPLETED"
        /\ executions[IdOfTask(u)].end_time # executions[IdOfTask(t)].end_time

\* C27: a record that has a result has one whose execution_id is the
\* record's id and whose status is 'success'; a record that has an error has
\* one that begins with 'Execution failed: '.
C27_ResultAndErrorShape ==
    \A id \in DOMAIN executions :
        /\ executions[id].result # None =>
              /\ executions[id].result[1].execution_id = id
              /\ executions[id].result[1].status = "success"
        /\ executions[id].error # None =>
              StartsWith(executions[id].error[1], "Execution failed: ")

\* one record has a result and another has an error
C27_Witness ==
    \E id, other \in DOMAIN executions :
        /\ executions[id].result # None
        /\ executions[other].error # None
        /\ Len(executions[other].error[1]) > Len("Execution failed: ")

C24_StepsInOrder ==
    LET requests == pipeline.requests
        n == Len(requests)
        ok(i) == StepSucceeded(requests[i].request.step, requests[i].response)
    IN  /\ n <= Len(Steps)
        /\ \A i \in 1..n : requests[i].request = StepRequest(Steps[i])
        /\ \A i \in 1..n : i < n => ok(i)
        /\ \A i \in 1..n :
              ~ok(i) /\ i < Len(Steps) =>
                  /\ i = n
                  /\ pipeline.pc \in {"returned", "raised"}
        /\ (n < Len(Steps) /\ (n = 0 \/ ok(n))) => pipeline.pc = Steps[n + 1]
        /\ pipeline.completed <=>
              /\ n = Len(Steps)
              /\ ~requests[n].response.raised
        /\ (pipeline.pc = "returned" /\ n >= 4 /\ ok(4)) =>
              pipeline.completed

\* a run that printed the completion message after a status check that was
\* answered 500
C24_Witness ==
    /\ pipeline.pc = "returned"
    /\ pipeline.completed
    /\ Len(pipeline.requests) = 5
    /\ pipeline.requests[5].response = Response(500)

\* the ids of the documents of the batches posted, in the order sent
RECURSIVE PostedIds(_)
PostedIds(posts) ==
    IF posts = << >> THEN << >>
    ELSE PostedIds(SubSeq(posts, 1, Len(posts) - 1))
         \o [k \in 1..Len(posts[Len(posts)].json.value) |->
                posts[Len(posts)].json.value[k].id]

\* the documents in the batches that were answered 200 or 207
RECURSIVE Accepted(_)
Accepted(posts) ==
    IF posts = << >> THEN 0
    ELSE Accepted(SubSeq(posts, 1, Len(posts) - 1))
         + (IF /\ ~posts[Len(posts)].response.raised
               /\ posts[Len(posts)].response.status_code \in {200, 207}
            THEN Len(posts[Len(posts)].json.value) ELSE 0)

C29_TrueOnlyIfTargetGone ==
    (cleanup # NotRun /\ cleanup.pc = "returned" /\ cleanup.ret = Some(TRUE)) =>
        \A id \in DOMAIN cleanup.agents :
            /\ id # "asst_2mbh9GFHWaAMxY5gEbW8ZO93"
            /\ cleanup.agents[id] # "Agent53"

\* C30: when verify_successful_redeployment has returned True, each of the
\* four expected names is on an agent with a new id and no listed agent has
\* one of the four old ids.
C30_TrueOnlyIfAllNew ==
    (redeployment # NotRun /\ redeployment.ret = Some(TRUE)) =>
        /\ \A name \in ExpectedAgents :
              \E agent \in redeployment.agents :
                  agent.name = name /\ agent.id \notin OldIds
        /\ \A agent \in redeployment.agents : agent.id \notin OldIds

====
